---- MODULE Spec2Model ----
(***************************************************************************)
(* Connectify chat server: the Socket.IO connection handler of             *)
(* src/api/index.ts (lines 68-119) as a state machine.                     *)
(*                                                                         *)
(* The handler keeps no state of its own.  All of its state lives in the   *)
(* Socket.IO server object chatIO: the set of connected sockets and the    *)
(* adapter's map from room key to the set of socket ids in that room.      *)
(* The model holds that map (rooms), the life cycle of every socket        *)
(* (status), what each client has received as "receiveMessage" (inbox),    *)
(* and whether the server process is still alive (crashed).                *)
(* History: joined holds the join requests the handler has served for each *)
(* connected socket, sent counts the sendMessage events it has served      *)
(* (every inbox entry carries that count), and last is the latest of those *)
(* events: the socket that sent it and its arguments.                      *)
(* errors holds the connected sockets whose "error" listener has logged,   *)
(* and broken the connected sockets whose transport has failed and whose   *)
(* "disconnect" event the server has not served yet.                       *)
(* copyRooms and copyInbox are the room map and the deliveries of the      *)
(* other copies of the server (src/unnamed/part_000, part_001, part_002)   *)
(* when they are run beside src/api/index.ts on the same events.           *)
(***************************************************************************)
EXTENDS Naturals, Sequences, FiniteSets

VARIABLES status, rooms, inbox, crashed, joined, sent, last, errors, broken,
          copyRooms, copyInbox

vars == <<status, rooms, inbox, crashed, joined, sent, last, errors, broken,
          copyRooms, copyInbox>>

----------------------------------------------------------------------------
(* Bounds of the model.                                                    *)

\* number of sockets that ever connect
MaxConns == 2
\* number of sendMessage events the server handles
MaxSends == 2

----------------------------------------------------------------------------
(* Values.                                                                 *)

\* socket.id: a unique string the transport gives every connection
SocketIds == <<"sidA", "sidB", "sidC", "sidD">>

Conns == {SocketIds[i] : i \in 1..MaxConns}

\* JavaScript's undefined (an absent query parameter, an absent field)
Undefined == "<undefined>"

\* room identifiers a client sends with a joinRoom event
RoomKeys == {"r1", "r2", ""}

\* socket.handshake.query.room: a room identifier, or no such parameter
QueryRooms == RoomKeys \cup {Undefined}

\* msg.room: a room identifier, a key nobody joins, no room field at all, or
\* a socket id (each of which is a room key of the adapter)
Targets == RoomKeys \cup {"ghost", Undefined} \cup Conns

\* interface Message
Message(user, text, room, time) ==
  [user |-> user, text |-> text, room |-> room, time |-> time]

\* the messages clients send: a well-formed one to every target, and one to
\* "r1" with no user, an empty text and a malformed timestamp
Messages ==
  {Message("alice", "hi", r, "t1") : r \in Targets}
    \cup {Message(Undefined, "", "r1", "not-a-time")}

\* the argument lists a client can give a sendMessage event: one Message, or
\* none at all (the listener's msg parameter is then undefined)
SendArgs == {<<m>> : m \in Messages} \cup {<<>>}

\* the copies of the server that are run beside src/api/index.ts
Copies == {"part_000", "part_001", "part_002"}

----------------------------------------------------------------------------
(* The calls the handler makes, as functions of the adapter's room map.    *)

\* if (room !== undefined): an empty string passes the test
TruthyDefined(room) == room # Undefined

\* if (room): JavaScript truthiness of a string-or-undefined value
Truthy(room) == room # "" /\ room # Undefined

\* a join that takes the socket out of every other room
SocketJoinExclusive(rs, id, room) ==
  [k \in DOMAIN rs |-> IF k = room THEN rs[k] \cup {id} ELSE rs[k] \ {id}]

\* a join that moves the socket: it leaves the rooms it had joined before
SocketJoinSwitch(rs, id, room) ==
  [k \in DOMAIN rs |->
     IF k = room THEN rs[k] \cup {id}
     ELSE IF k = id THEN rs[k] ELSE rs[k] \ {id}]

\* a join that leaves the room when the socket is already in it
SocketJoinToggle(rs, id, room) ==
  [rs EXCEPT ![room] = IF id \in @ THEN @ \ {id} ELSE @ \cup {id}]

\* socket.join(room): the adapter adds the socket id to the room's set,
\* creating the room (whatever its key) when it is not there
SocketJoin(rs, id, room) == [rs EXCEPT ![room] = @ \cup {id}]

\* the server's "connection" event: Socket.IO has put the new socket in the
\* room named by its own id; the handler then joins the query's room
OnConnection(rs, id, room) ==
  LET own == SocketJoin(rs, id, id)
  IN  IF Truthy(room) THEN SocketJoin(own, id, room) ELSE own

\* chatIO.emit: every socket of the server
ToRoomAll(rs, from, room) == UNION {rs[k] : k \in DOMAIN rs}

\* every socket of the server when the room is empty
ToRoomOrAll(rs, from, room) ==
  IF rs[room] = {} THEN UNION {rs[k] : k \in DOMAIN rs} ELSE rs[room]

\* the room's sockets and every socket that shares a room with one of them
ToRoomNeighbours(rs, from, room) ==
  UNION {rs[k] : k \in {j \in DOMAIN rs : rs[j] \cap rs[room] # {}}}

\* a broadcast that always reaches the sender as well
ToRoomAndSender(rs, from, room) == rs[room] \cup {from}

\* socket.to(room): the room's sockets except the sending one
ToRoomButSender(rs, from, room) == rs[room] \ {from}

\* chatIO.to(room), called in the listener of socket `from`: the sockets the
\* adapter holds for that one room key, the sending socket among them
ToRoom(rs, from, room) == rs[room]

\* an emit that writes to one of the target sockets and misses the others
EmitToOne(inb, targets, entry) ==
  [c \in DOMAIN inb |->
     IF targets # {} /\ c = CHOOSE t \in targets : TRUE
       THEN Append(inb[c], entry) ELSE inb[c]]

\* an emit that puts the packet in front of the ones already written
EmitPrepend(inb, targets, entry) ==
  [c \in DOMAIN inb |-> IF c \in targets THEN <<entry>> \o inb[c] ELSE inb[c]]

\* .emit("receiveMessage", msg): msg is written once to each target socket
Emit(inb, targets, entry) ==
  [c \in DOMAIN inb |-> IF c \in targets THEN Append(inb[c], entry) ELSE inb[c]]

\* the fields of a Message
Fields == {"user", "text", "room", "time"}

\* an encoding that also leaves out the fields that are empty strings
WireNonEmpty(msg) ==
  [f \in {g \in Fields : msg[g] # Undefined /\ msg[g] # ""} |-> msg[f]]

\* emit's encoding of msg as a JSON packet: the fields that have a value,
\* each with its value; a field that is undefined is not written
Wire(msg) == [f \in {g \in Fields : msg[g] # Undefined} |-> msg[f]]

\* what the client's receiveMessage listener reads from the packet: a field
\* the packet does not hold reads as undefined
Received(packet) ==
  [f \in Fields |-> IF f \in DOMAIN packet THEN packet[f] ELSE Undefined]

\* a broadcast that stops at the first socket it cannot write to
DeliverableAbort(targets, brk) == IF targets \cap brk = {} THEN targets ELSE {}

\* the write of one packet to each target socket: a socket whose transport
\* is not open is passed over, and the others are written to
Deliverable(targets, brk) == targets \ brk

\* a disconnect that clears the socket's own room and no other
LeaveOwnRoom(rs, id) == [rs EXCEPT ![id] = @ \ {id}]

\* a disconnect that leaves the adapter's rooms as they are
LeaveAllNone(rs, id) == rs

\* the "disconnect" event: Socket.IO has taken the socket out of every room
\* before the handler (which only logs) runs
LeaveAll(rs, id) == [k \in DOMAIN rs |-> rs[k] \ {id}]

----------------------------------------------------------------------------
Init ==
  /\ status = [c \in Conns |-> "new"]
  /\ rooms = [k \in Targets |-> {}]
  /\ inbox = [c \in Conns |-> <<>>]
  /\ crashed = FALSE
  /\ joined = [c \in Conns |-> {}]
  /\ sent = 0
  /\ last = [from |-> Undefined, args |-> <<>>]
  /\ errors = {}
  /\ broken = {}
  /\ copyRooms = [f \in Copies |-> [k \in Targets |-> {}]]
  /\ copyInbox = [f \in Copies |-> [c \in Conns |-> <<>>]]

\* chatIO.on("connection", ...) with socket.handshake.query.room = room
Connect(c, room) ==
  /\ ~crashed
  /\ status[c] = "new"
  /\ status' = [status EXCEPT ![c] = "connected"]
  /\ rooms' = OnConnection(rooms, c, room)
  /\ joined' = [joined EXCEPT ![c] = IF Truthy(room) THEN {room} ELSE {}]
  /\ UNCHANGED <<inbox, crashed, sent, last, errors, broken>>

\* socket.on("joinRoom", (roomId) => socket.join(roomId))
JoinRoom(c, roomId) ==
  /\ ~crashed
  /\ status[c] = "connected"
  /\ rooms' = SocketJoin(rooms, c, roomId)
  /\ joined' = [joined EXCEPT ![c] = @ \cup {roomId}]
  /\ UNCHANGED <<status, inbox, crashed, sent, last, errors, broken>>

\* socket.on("sendMessage", (msg) => chatIO.to(msg.room).emit(...))
\* With no payload msg is undefined and msg.room throws a TypeError inside
\* the listener; nothing catches it, and the process ends.
SendMessage(c, args) ==
  /\ ~crashed
  /\ status[c] = "connected"
  /\ sent < MaxSends
  /\ sent' = sent + 1
  /\ last' = [from |-> c, args |-> args]
  /\ IF args = <<>>
       THEN /\ crashed' = TRUE
            /\ UNCHANGED inbox
       ELSE /\ inbox' = Emit(inbox,
                             Deliverable(ToRoom(rooms, c, args[1].room), broken),
                             [seq |-> sent + 1, msg |-> Received(Wire(args[1]))])
            /\ UNCHANGED crashed
  /\ UNCHANGED <<status, rooms, joined, errors, broken>>

\* socket.on("disconnect", ...): the socket is gone from every room
Disconnect(c) ==
  /\ ~crashed
  /\ status[c] = "connected"
  /\ status' = [status EXCEPT ![c] = "closed"]
  /\ rooms' = LeaveAll(rooms, c)
  /\ joined' = [joined EXCEPT ![c] = {}]
  /\ errors' = errors \ {c}
  /\ broken' = broken \ {c}
  /\ UNCHANGED <<inbox, crashed, sent, last>>

\* an "error" listener that drops the socket from its rooms
SocketErrorLeaves(c) ==
  /\ ~crashed
  /\ status[c] = "connected"
  /\ errors' = errors \cup {c}
  /\ rooms' = LeaveAll(rooms, c)
  /\ UNCHANGED <<status, inbox, crashed, joined, sent, last, broken>>

\* socket.on("error", ...): logs the error and does nothing else
SocketError(c) ==
  /\ ~crashed
  /\ status[c] = "connected"
  /\ errors' = errors \cup {c}
  /\ UNCHANGED <<status, rooms, inbox, crashed, joined, sent, last, broken>>

\* the transport of a connected socket fails (its connection is no longer
\* open); the server has not served the socket's "disconnect" event yet
TransportFault(c) ==
  /\ ~crashed
  /\ status[c] = "connected"
  /\ c \notin broken
  /\ broken' = broken \cup {c}
  /\ UNCHANGED <<status, rooms, inbox, crashed, joined, sent, last, errors>>

\* the other copies of the server are not run
CopiesIdle == UNCHANGED <<copyRooms, copyInbox>>

Next ==
  \/ \E c \in Conns, room \in QueryRooms : Connect(c, room) /\ CopiesIdle
  \/ \E c \in Conns, roomId \in RoomKeys : JoinRoom(c, roomId) /\ CopiesIdle
  \/ \E c \in Conns, args \in SendArgs : SendMessage(c, args) /\ CopiesIdle
  \/ \E c \in Conns : Disconnect(c) /\ CopiesIdle
  \/ \E c \in Conns : SocketError(c) /\ CopiesIdle

Spec == Init /\ [][Next]_vars

\* the server with transports that can fail before their disconnect is served
NextFault ==
  \/ Next
  \/ \E c \in Conns : TransportFault(c) /\ CopiesIdle

SpecFault == Init /\ [][NextFault]_vars

----------------------------------------------------------------------------
(* Vocabulary of the properties.                                           *)

\* this step serves a sendMessage event that carries a message
IsBroadcast == sent' = sent + 1 /\ last'.args # <<>>

\* the message of that event and the packet a recipient is sent
Msg == last'.args[1]

Entry == [seq |-> sent', msg |-> Msg]

\* this step writes exactly that one packet to c / writes nothing to c
Delivered(c) == inbox'[c] = Append(inbox[c], Entry)

Skipped(c) == inbox'[c] = inbox[c]

\* state: the latest sendMessage event carried a message
HasBroadcast == sent > 0 /\ last.args # <<>>

LastRoom == last.args[1].room

\* state: c has received the latest broadcast
GotLast(c) == Len(inbox[c]) > 0 /\ inbox[c][Len(inbox[c])].seq = sent

\* state: c has received some broadcast to room r
GotSome(c, r) == \E i \in 1..Len(inbox[c]) : inbox[c][i].msg.room = r

----------------------------------------------------------------------------
(* C1 as stated: every broadcast to room R is delivered to exactly the     *)
(* connected sockets that have joined R through the query parameter or a   *)
(* joinRoom event.  It fails: a socket also receives what is sent to the   *)
(* room named by its own socket id, which it never asked to join.          *)
C1_ExplicitMembersOnly ==
  [][IsBroadcast =>
       \A c \in Conns :
         IF status[c] = "connected" /\ Msg.room \in joined[c]
           THEN Delivered(c) ELSE Skipped(c)]_vars

(* C1 amended: every broadcast to room R is delivered, once, to exactly    *)
(* the connected sockets that have joined R through the query parameter or *)
(* a joinRoom event or whose own socket id is R; no other socket receives  *)
(* anything.                                                               *)
C1_RecipientsAreRoomMembers ==
  [][IsBroadcast =>
       \A c \in Conns :
         IF status[c] = "connected" /\ (Msg.room \in joined[c] \/ Msg.room = c)
           THEN Delivered(c) ELSE Skipped(c)]_vars

\* a broadcast has reached a connected member of its room and has passed by
\* a connected socket that is not one
C1_Witness ==
  /\ HasBroadcast
  /\ \E c, d \in Conns :
       /\ status[c] = "connected" /\ status[d] = "connected"
       /\ LastRoom \in joined[c] /\ GotLast(c)
       /\ LastRoom \notin joined[d] /\ LastRoom # d /\ ~GotLast(d)

----------------------------------------------------------------------------
(* C2: once a socket has joined room R, and for as long as it has not      *)
(* disconnected, it is in R's member set and every broadcast to R is       *)
(* delivered to it.                                                        *)
C2_JoinedReceivesEveryBroadcast ==
  [][\A c \in Conns, r \in Targets :
       r \in joined[c] =>
         /\ c \in rooms[r]
         /\ (IsBroadcast /\ Msg.room = r) => Delivered(c)]_vars

\* a socket that joined r has received two broadcasts to r, all there were
C2_Witness ==
  \E c \in Conns, r \in RoomKeys :
    /\ r \in joined[c]
    /\ sent >= 2
    /\ Len(inbox[c]) = sent
    /\ \A i \in 1..Len(inbox[c]) : inbox[c][i].msg.room = r

----------------------------------------------------------------------------
(* C3: a socket that has disconnected is delivered nothing more, whatever  *)
(* rooms it had joined; a broadcast made after a disconnect still reaches  *)
(* every connected socket that has joined the room.                        *)
C3_NoDeliveryAfterDisconnect ==
  [][/\ \A c \in Conns : status[c] = "closed" => Skipped(c)
     /\ (IsBroadcast /\ \E c \in Conns : status[c] = "closed") =>
          \A d \in Conns :
            (status[d] = "connected" /\ Msg.room \in joined[d]) => Delivered(d)]_vars

\* c received a broadcast to r, then disconnected; the latest broadcast to r
\* reached d, which is still connected, and not c
C3_Witness ==
  /\ HasBroadcast
  /\ \E c, d \in Conns :
       /\ status[c] = "closed" /\ status[d] = "connected"
       /\ LastRoom \in RoomKeys
       /\ GotSome(c, LastRoom) /\ ~GotLast(c)
       /\ LastRoom \in joined[d] /\ GotLast(d)

----------------------------------------------------------------------------
(* C4 as stated: a join with an empty or undefined room identifier is a    *)
(* no-op on both join paths, so no room with an empty or undefined key     *)
(* ever has a member.  The query path has the guard (if (room)); the       *)
(* joinRoom listener has none and joins whatever key it is given.          *)
C4_NoMemberOfEmptyKey == rooms[""] = {} /\ rooms[Undefined] = {}

----------------------------------------------------------------------------
(* C5 as stated: no sequence of connect, joinRoom, sendMessage, disconnect *)
(* and error events puts the server in a fatal state.  A sendMessage event *)
(* without a payload makes the listener read msg.room of undefined.        *)
C5_NeverCrashes == ~crashed

----------------------------------------------------------------------------
(* C6: join is idempotent.  For a socket that has joined r, joining r      *)
(* again leaves the room map as it is; no broadcast is delivered to a      *)
(* socket more than once; and once a socket has disconnected it is in no   *)
(* room at all.                                                            *)
C6_JoinIdempotent ==
  /\ \A c \in Conns : \A r \in joined[c] : SocketJoin(rooms, c, r) = rooms
  /\ \A c \in Conns : \A i, j \in 1..Len(inbox[c]) :
       inbox[c][i].seq = inbox[c][j].seq => i = j
  /\ \A c \in Conns : status[c] = "closed" => \A k \in Targets : c \notin rooms[k]

\* a socket that joined r (a further joinRoom for r is a step back to this
\* very state) holds the latest broadcast to r exactly once, and a socket
\* that had received on r has disconnected
C6_Witness ==
  /\ HasBroadcast
  /\ \E c, d \in Conns :
       /\ status[d] = "connected" /\ LastRoom \in joined[d]
       /\ Cardinality({i \in 1..Len(inbox[d]) : inbox[d][i].seq = sent}) = 1
       /\ status[c] = "closed" /\ GotSome(c, LastRoom)
       /\ \A k \in Targets : c \notin rooms[k]

----------------------------------------------------------------------------
(* C7: a broadcast to a room whose member set is empty delivers nothing,   *)
(* raises no error and changes no membership.                              *)
C7_EmptyRoomBroadcastIsNoOp ==
  [][(IsBroadcast /\ rooms[Msg.room] = {}) =>
       /\ inbox' = inbox
       /\ rooms' = rooms /\ status' = status /\ joined' = joined
       /\ crashed' = crashed]_vars

\* the latest broadcast went to a room whose only member had disconnected:
\* nobody received it, and the server is alive
C7_Witness ==
  /\ HasBroadcast /\ ~crashed
  /\ rooms[LastRoom] = {}
  /\ \A c \in Conns : ~GotLast(c)
  /\ \E c, d \in Conns :
       /\ status[c] = "closed" /\ GotSome(c, LastRoom)
       /\ status[d] = "connected"

----------------------------------------------------------------------------
(* C8: every socket receives broadcasts in the order the server served     *)
(* them: the packets of an inbox are in increasing order of broadcast.     *)
C8_DeliveryOrderIsBroadcastOrder ==
  \A c \in Conns : \A i, j \in 1..Len(inbox[c]) :
    i < j => inbox[c][i].seq < inbox[c][j].seq

\* two members of a room have both received its two broadcasts, M1 then M2
C8_Witness ==
  \E c, d \in Conns, r \in RoomKeys :
    /\ c # d
    /\ \A x \in {c, d} :
         /\ Len(inbox[x]) = 2
         /\ inbox[x][1].msg.room = r /\ inbox[x][2].msg.room = r
         /\ inbox[x][1].seq = 1 /\ inbox[x][2].seq = 2

----------------------------------------------------------------------------
(* C9: rooms are isolated.  For a socket that is in some room other than   *)
(* the target of a broadcast, that other membership decides nothing: it    *)
(* receives the message once when it is also in the target room, and not   *)
(* at all when it is not.                                                  *)
C9_RoomIsolation ==
  [][IsBroadcast =>
       \A c \in Conns :
         (\E k \in Targets \ {Msg.room} : c \in rooms[k]) =>
           IF c \in rooms[Msg.room] THEN Delivered(c) ELSE Skipped(c)]_vars

\* d is in r1 and r2, e in r2 alone: the broadcast to r1 reached d once and
\* e has never received anything
C9_Witness ==
  /\ HasBroadcast /\ LastRoom = "r1"
  /\ \E d, e \in Conns :
       /\ status[d] = "connected" /\ status[e] = "connected"
       /\ joined[d] = {"r1", "r2"} /\ joined[e] = {"r2"}
       /\ Len(inbox[d]) = 1 /\ GotLast(d)
       /\ inbox[e] = <<>>

----------------------------------------------------------------------------
(* C10: when the sending socket has joined the room it sends to, the       *)
(* message is delivered to the sender itself and to every other member.    *)
C10_SenderReceivesOwnMessage ==
  [][(IsBroadcast /\ Msg.room \in joined[last'.from]) =>
       /\ Delivered(last'.from)
       /\ \A d \in rooms[Msg.room] : Delivered(d)]_vars

\* the sender of the latest broadcast and another member both hold it
C10_Witness ==
  /\ HasBroadcast
  /\ \E d \in Conns \ {last.from} :
       /\ LastRoom \in joined[last.from] /\ LastRoom \in joined[d]
       /\ GotLast(last.from) /\ GotLast(d)

----------------------------------------------------------------------------
(* C11: a delivery that fails for one member of the room does not abort    *)
(* the broadcast.  The members whose transport is open are each delivered  *)
(* the message, the member whose transport has failed is passed over, and  *)
(* the server stays alive with its room map as it was.                     *)
C11_FailureDoesNotAbort ==
  [][IsBroadcast =>
       /\ \A c \in rooms[Msg.room] :
            IF c \in broken THEN Skipped(c) ELSE Delivered(c)
       /\ crashed' = crashed
       /\ rooms' = rooms]_vars

\* c and d are members of the room; c received an earlier broadcast, its
\* transport then failed, and the latest broadcast reached d and not c
C11_Witness ==
  /\ HasBroadcast /\ ~crashed
  /\ \E c, d \in Conns :
       /\ c \in broken /\ c \in rooms[LastRoom]
       /\ GotSome(c, LastRoom) /\ ~GotLast(c)
       /\ d \notin broken /\ d \in rooms[LastRoom] /\ GotLast(d)

----------------------------------------------------------------------------
(* C12: what a recipient is delivered is the message as it was sent: its   *)
(* user, text, room and time are those of the sendMessage event, also when *)
(* the text is empty, the user is missing or the timestamp is malformed.   *)
C12_PayloadForwardedUnchanged ==
  [][IsBroadcast =>
       \A c \in Conns :
         inbox'[c] # inbox[c] =>
           LET got == inbox'[c][Len(inbox'[c])].msg
           IN  /\ got.user = Msg.user /\ got.text = Msg.text
               /\ got.room = Msg.room /\ got.time = Msg.time]_vars

\* a member of r1 holds the message that was sent with no user, an empty
\* text and a malformed timestamp, field for field
C12_Witness ==
  /\ HasBroadcast
  /\ last.args[1] = Message(Undefined, "", "r1", "not-a-time")
  /\ \E c \in Conns :
       /\ GotLast(c)
       /\ LET got == inbox[c][Len(inbox[c])].msg
          IN  /\ got.user = Undefined /\ got.text = ""
              /\ got.room = "r1" /\ got.time = "not-a-time"

----------------------------------------------------------------------------
(* C13: every member of every room is a connected socket.  A step that     *)
(* disconnects a socket takes it out of every room; a disconnected socket  *)
(* stays disconnected (its cleanup is never run again) and no later event  *)
(* puts it in a room.                                                      *)
C13_MembersAreConnected ==
  [][/\ \A k \in Targets : \A c \in rooms'[k] : status'[c] = "connected"
     /\ \A c \in Conns :
          status[c] = "closed" =>
            /\ status'[c] = "closed"
            /\ \A k \in Targets : c \notin rooms'[k]]_vars

\* c was a member of r1 and received on it, has disconnected and is in no
\* room; d, which has received nothing, is now the only member of r1
C13_Witness ==
  \E c, d \in Conns :
    /\ status[c] = "closed" /\ GotSome(c, "r1")
    /\ \A k \in Targets : c \notin rooms[k]
    /\ status[d] = "connected" /\ inbox[d] = <<>>
    /\ rooms["r1"] = {d}

----------------------------------------------------------------------------
(* C14: under every interleaving of the events of different sockets, each  *)
(* broadcast sees the room's member set of one single point of the order   *)
(* in which the events are served: the sockets that are written to are     *)
(* exactly the members the room had when the event was taken up and has   *)
(* when it is done, each is written to once, and a socket whose join was   *)
(* served before is among them.                                            *)
C14_BroadcastSeesOneSnapshot ==
  [][IsBroadcast =>
       /\ {c \in Conns : inbox'[c] # inbox[c]} = rooms[Msg.room]
       /\ rooms'[Msg.room] = rooms[Msg.room]
       /\ \A c \in rooms[Msg.room] : Len(inbox'[c]) = Len(inbox[c]) + 1
       /\ \A c \in Conns :
            (status[c] = "connected" /\ Msg.room \in joined[c]) =>
              inbox'[c] # inbox[c]]_vars

\* two broadcasts to r1 were served around a join: c, a member throughout,
\* holds both, and d, whose join was served between them, holds the second
C14_Witness ==
  /\ sent = 2 /\ HasBroadcast /\ LastRoom = "r1"
  /\ \E c, d \in Conns :
       /\ Len(inbox[c]) = 2 /\ inbox[c][1].msg.room = "r1" /\ GotLast(c)
       /\ Len(inbox[d]) = 1 /\ GotLast(d)
       /\ "r1" \in joined[c] /\ "r1" \in joined[d]

----------------------------------------------------------------------------
(* C15 as stated: after a connect whose query carries a non-empty room r   *)
(* the socket is a member of r, and after a connect whose query carries no *)
(* room or an empty one it is a member of no room.  The second half fails: *)
(* every socket is in the room named by its own socket id from the moment  *)
(* it connects.                                                            *)
C15_NoRoomAfterPlainConnect ==
  [][\A c \in Conns, room \in QueryRooms :
       Connect(c, room) =>
         IF room # "" /\ room # Undefined
           THEN c \in rooms'[room]
           ELSE \A k \in Targets : c \notin rooms'[k]]_vars

(* C15 amended: when the connect has been served, a socket whose query     *)
(* carries a non-empty room r is a member of r (and of the room named by   *)
(* its own socket id, and of no other); a socket whose query carries no    *)
(* room or an empty one is a member of no room other than the one named by *)
(* its own socket id.                                                      *)
C15_QueryRoomJoinedAtConnect ==
  [][\A c \in Conns, room \in QueryRooms :
       Connect(c, room) =>
         {k \in Targets : c \in rooms'[k]} =
           (IF room # "" /\ room # Undefined THEN {room, c} ELSE {c})]_vars

\* c is in r1 and in its own room and in no other, and the first broadcast,
\* to r1, has reached it; d is in its own room alone and has received nothing
C15_Witness ==
  /\ sent = 1 /\ HasBroadcast /\ LastRoom = "r1"
  /\ \E c, d \in Conns :
       /\ {k \in Targets : c \in rooms[k]} = {"r1", c} /\ GotLast(c)
       /\ status[d] = "connected"
       /\ {k \in Targets : d \in rooms[k]} = {d} /\ inbox[d] = <<>>

----------------------------------------------------------------------------
(* C16: joining is cumulative.  A joinRoom adds the room to the rooms the  *)
(* socket is in and takes none away, and a socket leaves a room only by    *)
(* the step that disconnects it.                                           *)
C16_JoinsAccumulate ==
  [][/\ \A c \in Conns, r \in RoomKeys :
          JoinRoom(c, r) =>
            {k \in Targets : c \in rooms'[k]} =
              {k \in Targets : c \in rooms[k]} \cup {r}
     /\ \A c \in Conns, k \in Targets :
          (c \in rooms[k] /\ c \notin rooms'[k]) =>
            (status[c] = "connected" /\ status'[c] = "closed")]_vars

\* c has joined r1 and r2 and holds one broadcast to each of them
C16_Witness ==
  \E c \in Conns :
    /\ status[c] = "connected"
    /\ {"r1", "r2"} \subseteq joined[c]
    /\ c \in rooms["r1"] /\ c \in rooms["r2"]
    /\ Len(inbox[c]) = 2
    /\ {inbox[c][1].msg.room, inbox[c][2].msg.room} = {"r1", "r2"}

----------------------------------------------------------------------------
(* C17: a sendMessage event and a socket "error" event leave the room      *)
(* membership as it was: a broadcast adds nobody to a room and removes     *)
(* nobody, and an error on a socket changes no membership and closes no    *)
(* socket.                                                                 *)
C17_SendAndErrorKeepMembership ==
  [][/\ sent' # sent => (rooms' = rooms /\ status' = status)
     /\ \A c \in Conns :
          (c \in errors' /\ c \notin errors) =>
            (rooms' = rooms /\ status' = status /\ inbox' = inbox)]_vars

\* c had an error and is still in r1; d, who is not in r1, has sent the
\* latest broadcast to r1, and it has reached c and not d
C17_Witness ==
  \E c, d \in Conns :
    /\ c # d
    /\ c \in errors
    /\ status[c] = "connected" /\ status[d] = "connected"
    /\ c \in rooms["r1"] /\ d \notin rooms["r1"]
    /\ HasBroadcast /\ LastRoom = "r1" /\ last.from = d
    /\ GotLast(c) /\ ~GotLast(d)

----------------------------------------------------------------------------
(* The three copies under src/unnamed, run side by side with               *)
(* src/api/index.ts on the same events.  copyRooms[f] and copyInbox[f] are *)
(* the room map and the deliveries of copy f; rooms and inbox are those of *)
(* src/api/index.ts.                                                       *)

\* the copies that register a "joinRoom" listener: part_001 registers none,
\* so Socket.IO drops a joinRoom event sent to it
HasJoinRoom(f) == f # "part_001"

\* chatIO.on("connection", ...) of each copy: the same query join
CopyConnect(c, room) ==
  /\ Connect(c, room)
  /\ copyRooms' = [f \in Copies |-> OnConnection(copyRooms[f], c, room)]
  /\ UNCHANGED copyInbox

\* socket.on("joinRoom", ...) of each copy that has the listener
CopyJoinRoom(c, roomId) ==
  /\ JoinRoom(c, roomId)
  /\ copyRooms' = [f \in Copies |->
                     IF HasJoinRoom(f)
                       THEN SocketJoin(copyRooms[f], c, roomId)
                       ELSE copyRooms[f]]
  /\ UNCHANGED copyInbox

\* socket.on("sendMessage", ...) of each copy: every copy reads msg.room and
\* emits to that room of its own room map
CopySendMessage(c, args) ==
  /\ SendMessage(c, args)
  /\ copyInbox' = [f \in Copies |->
                     IF args = <<>>
                       THEN copyInbox[f]
                       ELSE Emit(copyInbox[f],
                                 Deliverable(ToRoom(copyRooms[f], c, args[1].room),
                                             broken),
                                 [seq |-> sent + 1,
                                  msg |-> Received(Wire(args[1]))])]
  /\ UNCHANGED copyRooms

\* the disconnect of a socket: the library's cleanup in each copy
CopyDisconnect(c) ==
  /\ Disconnect(c)
  /\ copyRooms' = [f \in Copies |-> LeaveAll(copyRooms[f], c)]
  /\ UNCHANGED copyInbox

NextCopies ==
  \/ \E c \in Conns, room \in QueryRooms : CopyConnect(c, room)
  \/ \E c \in Conns, roomId \in RoomKeys : CopyJoinRoom(c, roomId)
  \/ \E c \in Conns, args \in SendArgs : CopySendMessage(c, args)
  \/ \E c \in Conns : CopyDisconnect(c)

SpecCopies == Init /\ [][NextCopies]_vars

(* C18 as stated: on the same sequence of connect, joinRoom, sendMessage   *)
(* and disconnect events the four copies reach the same room membership    *)
(* and produce the same deliveries.  It fails for src/unnamed/part_001,    *)
(* which has no joinRoom listener.                                         *)
C18_CopiesAgree ==
  \A f \in Copies : copyRooms[f] = rooms /\ copyInbox[f] = inbox

----------------------------------------------------------------------------
(* C19: sending does not require membership.  A sendMessage from a         *)
(* connected socket that is not in the target room is delivered to every   *)
(* socket in that room, is not delivered to the sender, and leaves the     *)
(* sender outside the room.                                                *)
C19_NonMemberCanSend ==
  [][(IsBroadcast /\ last'.from \notin rooms[Msg.room]) =>
       /\ \A d \in rooms[Msg.room] : Delivered(d)
       /\ Skipped(last'.from)
       /\ last'.from \notin rooms'[Msg.room]]_vars

\* c, outside r2, has sent the latest broadcast to r2: d, in r2, has it, and
\* c has not got it and is still outside r2
C19_Witness ==
  \E c, d \in Conns :
    /\ c # d
    /\ HasBroadcast /\ LastRoom = "r2" /\ last.from = c
    /\ status[c] = "connected" /\ status[d] = "connected"
    /\ c \notin rooms["r2"] /\ d \in rooms["r2"]
    /\ GotLast(d) /\ ~GotLast(c)

====
